---- MODULE Spec2Model ----
(***************************************************************************)
(* A model of runbook/adx_runbook.py: the schema sequencer (cmd_setup),    *)
(* the retrying executor (_execute_with_retry), the format and mapping     *)
(* resolvers and the command line front end.                               *)
(*                                                                         *)
(* Text is modelled as a sequence: an error message is the sequence of its *)
(* words, a file name or URI the sequence of its characters.  Python's     *)
(* `needle in text.lower()` becomes a search for a contiguous run of words *)
(* in the lower-cased sequence.  The service, the file system and the      *)
(* command line are the environment: their answers are chosen freely       *)
(* among the outcomes listed for them.                                     *)
(***************************************************************************)
EXTENDS Integers, Sequences, FiniteSets, TLC

VARIABLES
    mode,       \* which entry point this behaviour exercises
    db,         \* the service's schema objects (the remote database)
    prevEnd,    \* how the previous setup invocation ended
    pc,         \* position of the current invocation
    i,          \* cmd_setup's loop index
    attempt,    \* _execute_with_retry's loop variable
    retries,    \* _execute_with_retry's keyword argument
    waited,     \* seconds spent in time.sleep for the current statement
    last_exc,   \* _execute_with_retry's last_exc
    errs,       \* errors of the attempts of the current statement (executor runs)
    raised,     \* the error that left the executor's latest call (NoErr: it returned)
    report,     \* what cmd_setup printed for each ended step
    sent,       \* steps in the order their first attempt reached the service
    input,      \* format resolution: the file name and the command line values
    resolved,   \* format resolution: what each resolver answered
    cli,        \* one process of the command line: arguments, position, effects
    verify      \* cmd_verify: the rows returned, its position, what it reported

setupVars == <<db, prevEnd, pc, i, attempt, retries, waited, last_exc,
               errs, raised, report, sent>>

resolveVars == <<input, resolved>>

cliVars == <<cli>>

verifyVars == <<verify>>

vars == <<mode, setupVars, resolveVars, cliVars, verifyVars>>

----------------------------------------------------------------------------
(* Bounds of the model *)

MaxRetriesArg == 3

----------------------------------------------------------------------------
(* Program constants *)

MAX_RETRIES == 3

RETRY_DELAY_SECONDS == 5

\* The list with the update policy declared before the transform function.
SCHEMA_COMMANDS_policyBeforeFunction ==
    << [verb |-> ".create-merge table", object |-> "FileTransferEvents",
        requires |-> {}],
       [verb |-> ".create-merge table", object |-> "FileTransferEvents_Raw",
        requires |-> {}],
       [verb |-> ".create-merge table", object |-> "FileTransferEvents_Errors",
        requires |-> {}],
       [verb |-> ".alter table policy", object |-> "FileTransferEvents policy update",
        requires |-> {"FileTransferEvents", "FileTransferEvents_Raw",
                      "FileTransferEvents_Transform"}],
       [verb |-> ".create-or-alter function", object |-> "FileTransferEvents_Transform",
        requires |-> {"FileTransferEvents_Raw"}],
       [verb |-> ".create-or-alter ingestion mapping", object |-> "FileTransferEvents_CsvMapping",
        mappingKind |-> "csv", requires |-> {"FileTransferEvents_Raw"}],
       [verb |-> ".create-or-alter ingestion mapping", object |-> "FileTransferEvents_JsonMapping",
        mappingKind |-> "json", requires |-> {"FileTransferEvents_Raw"}],
       [verb |-> ".alter table policy", object |-> "FileTransferEvents policy retention",
        requires |-> {"FileTransferEvents"}],
       [verb |-> ".alter table policy", object |-> "FileTransferEvents_Raw policy retention",
        requires |-> {"FileTransferEvents_Raw"}],
       [verb |-> ".alter table policy", object |-> "FileTransferEvents_Errors policy retention",
        requires |-> {"FileTransferEvents_Errors"}],
       [verb |-> ".alter table policy", object |-> "FileTransferEvents_Raw policy ingestionbatching",
        requires |-> {"FileTransferEvents_Raw"}],
       [verb |-> ".create ifnotexists materialized-view", object |-> "DailySummary",
        requires |-> {"FileTransferEvents"}],
       [verb |-> ".alter materialized-view policy", object |-> "DailySummary policy retention",
        requires |-> {"DailySummary"}] >>

\* SCHEMA_COMMANDS: one record per (description, command) pair.  `verb` and
\* `object` are read off the command text; `requires` are the objects the
\* command text refers to and does not create.
SCHEMA_COMMANDS ==
    << [verb |-> ".create-merge table", object |-> "FileTransferEvents",
        requires |-> {}],
       [verb |-> ".create-merge table", object |-> "FileTransferEvents_Raw",
        requires |-> {}],
       [verb |-> ".create-merge table", object |-> "FileTransferEvents_Errors",
        requires |-> {}],
       [verb |-> ".create-or-alter function", object |-> "FileTransferEvents_Transform",
        requires |-> {"FileTransferEvents_Raw"}],
       [verb |-> ".alter table policy", object |-> "FileTransferEvents policy update",
        requires |-> {"FileTransferEvents", "FileTransferEvents_Raw",
                      "FileTransferEvents_Transform"}],
       [verb |-> ".create-or-alter ingestion mapping", object |-> "FileTransferEvents_CsvMapping",
        mappingKind |-> "csv", requires |-> {"FileTransferEvents_Raw"}],
       [verb |-> ".create-or-alter ingestion mapping", object |-> "FileTransferEvents_JsonMapping",
        mappingKind |-> "json", requires |-> {"FileTransferEvents_Raw"}],
       [verb |-> ".alter table policy", object |-> "FileTransferEvents policy retention",
        requires |-> {"FileTransferEvents"}],
       [verb |-> ".alter table policy", object |-> "FileTransferEvents_Raw policy retention",
        requires |-> {"FileTransferEvents_Raw"}],
       [verb |-> ".alter table policy", object |-> "FileTransferEvents_Errors policy retention",
        requires |-> {"FileTransferEvents_Errors"}],
       [verb |-> ".alter table policy", object |-> "FileTransferEvents_Raw policy ingestionbatching",
        requires |-> {"FileTransferEvents_Raw"}],
       [verb |-> ".create ifnotexists materialized-view", object |-> "DailySummary",
        requires |-> {"FileTransferEvents"}],
       [verb |-> ".alter materialized-view policy", object |-> "DailySummary policy retention",
        requires |-> {"DailySummary"}] >>

NumSteps == Len(SCHEMA_COMMANDS)

AllObjects == { SCHEMA_COMMANDS[k].object : k \in 1..NumSteps }

\* Commands that create a named entity: the service can answer these with an
\* "already exists" error.  An .alter ... policy command overwrites.
CreateVerbs ==
    { ".create-merge table", ".create-or-alter function",
      ".create-or-alter ingestion mapping", ".create ifnotexists materialized-view" }

----------------------------------------------------------------------------
(* Text: str.lower() and the `in` operator *)

\* str.lower() on one token.
LowerTok(t) ==
    CASE t = "Failed" -> "failed"
      [] t = "FAILED" -> "failed"
      [] t = "TO" -> "to"
      [] t = "PROCESS" -> "process"
      [] t = "NETWORK" -> "network"
      [] t = "Network" -> "network"
      [] t = "REQUEST" -> "request"
      [] t = "Already" -> "already"
      [] t = "ALREADY" -> "already"
      [] t = "Exists" -> "exists"
      [] t = "EXISTS" -> "exists"
      [] t = "Auth/Metadata" -> "auth/metadata"
      [] t = "Entity" -> "entity"
      [] t = "Table" -> "table"
      [] t = "Forbidden" -> "forbidden"
      [] t = "Request" -> "request"
      [] OTHER -> t

\* str.lower()
Lower(s) == [k \in 1..Len(s) |-> LowerTok(s[k])]

\* needle in s
Contains(s, needle) ==
    \E k \in 0..(Len(s) - Len(needle)) :
        \A j \in 1..Len(needle) : s[k + j] = needle[j]

NoErr == [kind |-> "none", msg |-> <<>>]

\* A KustoServiceError with message m.
ServiceError(m) == [kind |-> "KustoServiceError", msg |-> m]

\* An exception that is not a KustoServiceError (the handlers never read its
\* message).
OtherException == [kind |-> "Exception", msg |-> <<>>]

\* Messages of transport failures.
TransientMsgs ==
    { <<"Failed", "to", "process", "network", "request", "for", "the", "endpoint">>,
      <<"FAILED", "TO", "PROCESS", "NETWORK", "REQUEST">>,
      <<"GET", "/v1/rest/", "auth/metadata", "timed", "out">>,
      <<"Auth/Metadata", "unavailable">> }

\* Messages of failures that no phrase of the code matches.
FatalMsgs ==
    { <<"Forbidden">>,
      <<"Network", "request", "failed", "to", "process">>,
      <<"auth", "metadata", "missing">> }

\* The command took effect and its reply was lost on the way back.
LostReplyMsg == <<"Failed", "to", "process", "network", "request", "for", "the", "endpoint">>

NotFoundMsg == <<"Entity", "not", "found">>

\* Messages of the service refusing to create an entity that is there.
ExistsMsgs ==
    { <<"Entity", "Already", "Exists">>,
      <<"table", "already", "exists">>,
      <<"Failed", "to", "process", "network", "request", "entity", "ALREADY", "EXISTS">> }

----------------------------------------------------------------------------
(* _execute_with_retry *)

IsTransient_caseSensitive(msg) ==
    \/ Contains(msg, <<"failed", "to", "process", "network", "request">>)
    \/ Contains(msg, <<"auth/metadata">>)

\* line 276
IsTransient(msg) ==
    \/ Contains(Lower(msg), <<"failed", "to", "process", "network", "request">>)
    \/ Contains(Lower(msg), <<"auth/metadata">>)

MayRetry_offByOne(a, r) == a + 1 < r

MayRetry_oneMore(a, r) == a < r + 1

\* line 278
MayRetry(a, r) == a < r

\* One pass of the executor's loop body on the outcome o of client.execute_mgmt:
\* "return" the result, sleep and "retry", or "raise" the error.
ExecuteAttempt(a, r, o) ==
    IF o.ok THEN "return"
    ELSE IF o.err.kind = "KustoServiceError"
         THEN IF IsTransient(o.err.msg) /\ MayRetry(a, r) THEN "retry" ELSE "raise"
         ELSE "raise"

\* last_exc after the pass.
LastExcAfter(old, o) ==
    IF ~o.ok /\ o.err.kind = "KustoServiceError" /\ IsTransient(o.err.msg)
    THEN o.err ELSE old

\* A resolver that has not run yet.
Pending == [status |-> "pending", format |-> "", mapping |-> ""]

\* The parts of the state an entry point does not use stay as they are here.
ResolveIdle ==
    /\ input = [name |-> <<>>, query |-> <<>>, format |-> [given |-> FALSE, value |-> <<>>],
                mapping |-> [given |-> FALSE, value |-> ""]]
    /\ resolved = [local |-> Pending, blob |-> Pending]

CliIdle == cli = [pc |-> "idle"]

SetupIdle ==
    /\ db = {}
    /\ prevEnd = "none"
    /\ pc = "idle"
    /\ i = 1
    /\ attempt = 1
    /\ retries = MAX_RETRIES
    /\ waited = 0
    /\ last_exc = NoErr
    /\ errs = <<>>
    /\ raised = NoErr
    /\ report = <<>>
    /\ sent = <<>>

\* {}: a dict is a function from its keys.
EmptyDict == <<>>

\* cmd_verify before it is called.
VerifyIdle ==
    verify = [pc |-> "idle", response |-> <<>>, rows |-> <<>>, found |-> -1,
              null_timestamps |-> -1, verdict |-> "none", status_counts |-> EmptyDict]

----------------------------------------------------------------------------
(* The remote service, as client.execute_mgmt sees it *)

\* The outcomes of sending step k's command to a service holding objects d.
\* `applied` tells whether the command took effect.
ServiceOutcomes(k, d) ==
    LET cmd == SCHEMA_COMMANDS[k] IN
    \* the command runs
    (IF cmd.requires \subseteq d
     THEN {[ok |-> TRUE, err |-> NoErr, applied |-> TRUE]}
          \cup {[ok |-> FALSE, err |-> ServiceError(LostReplyMsg), applied |-> TRUE]}
     ELSE {[ok |-> FALSE, err |-> ServiceError(NotFoundMsg), applied |-> FALSE]})
    \* the entity is there already
    \cup (IF cmd.object \in d /\ cmd.verb \in CreateVerbs
          THEN {[ok |-> FALSE, err |-> ServiceError(m), applied |-> FALSE] : m \in ExistsMsgs}
          ELSE {})
    \* transport and other failures, whatever the database holds
    \cup {[ok |-> FALSE, err |-> ServiceError(m), applied |-> FALSE] :
              m \in TransientMsgs \cup FatalMsgs}
    \cup {[ok |-> FALSE, err |-> OtherException, applied |-> FALSE]}

DbAfter(k, d, o) == IF o.applied THEN d \cup {SCHEMA_COMMANDS[k].object} ELSE d

----------------------------------------------------------------------------
(* cmd_setup *)

IsAlreadyExists_caseSensitive(msg) == Contains(msg, <<"already", "exists">>)

\* line 308
IsAlreadyExists(msg) == Contains(Lower(msg), <<"already", "exists">>)

OnRaise_skipAny(e) == IF e.kind = "KustoServiceError" THEN "SKIPPED" ELSE "uncaught"

\* cmd_setup's except clause on the error e that left the executor: the step
\* is printed SKIPPED or FAILED; an exception of another type is not caught.
OnRaise(e) ==
    IF e.kind = "KustoServiceError"
    THEN IF IsAlreadyExists(e.msg) THEN "SKIPPED" ELSE "FAILED"
    ELSE "uncaught"

FirstIndex_second == 1 + 1

\* enumerate(SCHEMA_COMMANDS, start=1)
FirstIndex == 1

NextIndex_skip(k) == k + 2

NextIndex(k) == k + 1

\* `sent` after a call for step k: a call for the step that has not ended yet
\* is a further attempt of it.
SentAfter(k) ==
    IF sent # <<>> /\ sent[Len(sent)] = k /\ Len(report) < Len(sent)
    THEN sent ELSE Append(sent, k)

\* The executor's call has ended: its locals are gone.
ExecutorFrameGone ==
    /\ attempt' = 1
    /\ waited' = 0
    /\ last_exc' = NoErr

\* The loop moves on after step i has been printed with `word`.
StepEnds(word) ==
    /\ report' = Append(report, word)
    /\ ExecutorFrameGone
    /\ IF NextIndex(i) <= NumSteps
       THEN pc' = "running" /\ i' = NextIndex(i)
       ELSE pc' = "complete" /\ i' = i

\* The call returns: the step is printed OK.
SetupStepOk ==
    /\ mode = "setup" /\ pc = "running"
    /\ \E o \in ServiceOutcomes(i, db) :
        /\ ExecuteAttempt(attempt, retries, o) = "return"
        /\ db' = DbAfter(i, db, o)
        /\ sent' = SentAfter(i)
        /\ raised' = NoErr
        /\ StepEnds("OK")
    /\ UNCHANGED <<resolveVars, cliVars, verifyVars, mode, prevEnd, retries, errs>>

\* A transient error with attempts left: sleep and go round the loop.
SetupStepRetry ==
    /\ mode = "setup" /\ pc = "running"
    /\ \E o \in ServiceOutcomes(i, db) :
        /\ ExecuteAttempt(attempt, retries, o) = "retry"
        /\ db' = DbAfter(i, db, o)
        /\ sent' = SentAfter(i)
        /\ last_exc' = LastExcAfter(last_exc, o)
        /\ attempt' = attempt + 1
        /\ waited' = waited + RETRY_DELAY_SECONDS
    /\ UNCHANGED <<resolveVars, cliVars, verifyVars, mode, prevEnd, pc, i, retries, errs, raised, report>>

\* The executor raises an "already exists" error: the step is printed SKIPPED.
SetupStepSkipped ==
    /\ mode = "setup" /\ pc = "running"
    /\ \E o \in ServiceOutcomes(i, db) :
        /\ ExecuteAttempt(attempt, retries, o) = "raise"
        /\ OnRaise(o.err) = "SKIPPED"
        /\ db' = DbAfter(i, db, o)
        /\ sent' = SentAfter(i)
        /\ raised' = o.err
        /\ StepEnds("SKIPPED")
    /\ UNCHANGED <<resolveVars, cliVars, verifyVars, mode, prevEnd, retries, errs>>

\* The executor raises any other service error: the step is printed FAILED and
\* the error is raised again.
SetupStepFailed ==
    /\ mode = "setup" /\ pc = "running"
    /\ \E o \in ServiceOutcomes(i, db) :
        /\ ExecuteAttempt(attempt, retries, o) = "raise"
        /\ OnRaise(o.err) = "FAILED"
        /\ db' = DbAfter(i, db, o)
        /\ sent' = SentAfter(i)
        /\ report' = Append(report, "FAILED")
        /\ raised' = o.err
        /\ pc' = "failed"
    /\ ExecutorFrameGone
    /\ UNCHANGED <<resolveVars, cliVars, verifyVars, mode, prevEnd, i, retries, errs>>

\* An exception that is not a KustoServiceError (an interrupt among them)
\* passes through both handlers: nothing is printed for the step.
SetupStepAborted ==
    /\ mode = "setup" /\ pc = "running"
    /\ \E o \in ServiceOutcomes(i, db) :
        /\ ExecuteAttempt(attempt, retries, o) = "raise"
        /\ OnRaise(o.err) = "uncaught"
        /\ db' = DbAfter(i, db, o)
        /\ sent' = SentAfter(i)
        /\ raised' = o.err
        /\ pc' = "aborted"
    /\ ExecutorFrameGone
    /\ UNCHANGED <<resolveVars, cliVars, verifyVars, mode, prevEnd, i, retries, errs, report>>

\* The runbook is invoked again: a new process against the same database.
SetupAgain ==
    /\ mode = "setup" /\ pc \in {"complete", "failed", "aborted"}
    /\ prevEnd' = pc
    /\ pc' = "running"
    /\ i' = FirstIndex
    /\ attempt' = 1
    /\ waited' = 0
    /\ last_exc' = NoErr
    /\ raised' = NoErr
    /\ report' = <<>>
    /\ sent' = <<>>
    /\ UNCHANGED <<resolveVars, cliVars, verifyVars, mode, db, retries, errs>>

\* The first invocation of `setup`, against an empty database.
Init ==
    /\ mode = "setup"
    /\ db = {}
    /\ prevEnd = "none"
    /\ pc = "running"
    /\ i = FirstIndex
    /\ attempt = 1
    /\ retries = MAX_RETRIES
    /\ waited = 0
    /\ last_exc = NoErr
    /\ errs = <<>>
    /\ raised = NoErr
    /\ report = <<>>
    /\ sent = <<>>
    /\ ResolveIdle
    /\ CliIdle
    /\ VerifyIdle

Next ==
    \/ SetupStepOk
    \/ SetupStepRetry
    \/ SetupStepSkipped
    \/ SetupStepFailed
    \/ SetupStepAborted
    \/ SetupAgain

Spec == Init /\ [][Next]_vars

----------------------------------------------------------------------------
(* One invocation of setup, from its start to its end.  Every call of        *)
(* client.execute_mgmt returns or raises, so the invocation is never stuck   *)
(* inside a call: each of its steps below is one such call with what the     *)
(* code does on its outcome.                                                 *)

\* The databases the invocation finds: empty, or left by an invocation that
\* stopped at the update policy.
RunDatabases ==
    { {}, { SCHEMA_COMMANDS[k].object : k \in 1..4 } }

InitRun ==
    /\ mode = "setup"
    /\ db \in RunDatabases
    /\ prevEnd = (IF db = {} THEN "none" ELSE "failed")
    /\ pc = "running"
    /\ i = FirstIndex
    /\ attempt = 1
    /\ retries = MAX_RETRIES
    /\ waited = 0
    /\ last_exc = NoErr
    /\ errs = <<>>
    /\ raised = NoErr
    /\ report = <<>>
    /\ sent = <<>>
    /\ ResolveIdle
    /\ CliIdle
    /\ VerifyIdle

NextRun ==
    \/ SetupStepOk
    \/ SetupStepRetry
    \/ SetupStepSkipped
    \/ SetupStepFailed
    \/ SetupStepAborted

SpecRun == InitRun /\ [][NextRun]_vars /\ WF_vars(NextRun)

----------------------------------------------------------------------------
(* _execute_with_retry on its own: one statement, `retries` attempts at most *)

\* (statement, database) pairs the executor is run on.
ExecCases ==
    { <<1, {}>>, <<1, {"FileTransferEvents"}>>, <<8, {}>> }

\* client.execute_mgmt returns: so does the executor.
ExecReturn ==
    /\ mode = "exec" /\ pc = "running"
    /\ \E o \in ServiceOutcomes(i, db) :
        /\ ExecuteAttempt(attempt, retries, o) = "return"
        /\ db' = DbAfter(i, db, o)
    /\ pc' = "returned"
    /\ raised' = NoErr
    /\ UNCHANGED <<resolveVars, cliVars, verifyVars, mode, prevEnd, i, attempt, retries, waited, last_exc, errs,
                   report, sent>>

\* A transient error with attempts left: sleep, then the next attempt.
ExecRetry ==
    /\ mode = "exec" /\ pc = "running"
    /\ \E o \in ServiceOutcomes(i, db) :
        /\ ExecuteAttempt(attempt, retries, o) = "retry"
        /\ db' = DbAfter(i, db, o)
        /\ last_exc' = LastExcAfter(last_exc, o)
        /\ errs' = Append(errs, o.err)
    /\ attempt' = attempt + 1
    /\ waited' = waited + RETRY_DELAY_SECONDS
    /\ UNCHANGED <<resolveVars, cliVars, verifyVars, mode, prevEnd, pc, i, retries, raised, report, sent>>

\* The error of this attempt leaves the executor.
ExecRaise ==
    /\ mode = "exec" /\ pc = "running"
    /\ \E o \in ServiceOutcomes(i, db) :
        /\ ExecuteAttempt(attempt, retries, o) = "raise"
        /\ db' = DbAfter(i, db, o)
        /\ last_exc' = LastExcAfter(last_exc, o)
        /\ errs' = Append(errs, o.err)
        /\ raised' = o.err
    /\ pc' = "raised"
    /\ UNCHANGED <<resolveVars, cliVars, verifyVars, mode, prevEnd, i, attempt, retries, waited, report, sent>>

\* Line 283 (raise last_exc after the loop) is reached only with retries < 1,
\* which no caller passes.
InitExec ==
    /\ mode = "exec"
    /\ \E c \in ExecCases : i = c[1] /\ db = c[2]
    /\ retries \in 1..MaxRetriesArg
    /\ prevEnd = "none"
    /\ pc = "running"
    /\ attempt = 1
    /\ waited = 0
    /\ last_exc = NoErr
    /\ errs = <<>>
    /\ raised = NoErr
    /\ report = <<>>
    /\ sent = <<>>
    /\ ResolveIdle
    /\ CliIdle
    /\ VerifyIdle

NextExec ==
    \/ ExecReturn
    \/ ExecRetry
    \/ ExecRaise

SpecExec == InitExec /\ [][NextExec]_vars

----------------------------------------------------------------------------
(* Properties of _execute_with_retry *)

\* The messages of the model that hold "failed to process network request"
\* in some spelling, listed by hand.
SaysNetworkRequest(e) ==
    /\ e.kind = "KustoServiceError"
    /\ e.msg \in { <<"Failed", "to", "process", "network", "request", "for", "the", "endpoint">>,
                   <<"FAILED", "TO", "PROCESS", "NETWORK", "REQUEST">>,
                   <<"Failed", "to", "process", "network", "request", "entity", "ALREADY", "EXISTS">> }

\* The messages of the model that hold "auth/metadata" in some spelling.
SaysAuthMetadata(e) ==
    /\ e.kind = "KustoServiceError"
    /\ e.msg \in { <<"GET", "/v1/rest/", "auth/metadata", "timed", "out">>,
                   <<"Auth/Metadata", "unavailable">> }

SaysTransient(e) == SaysNetworkRequest(e) \/ SaysAuthMetadata(e)

\* C4: the executor goes on to another attempt exactly after an error whose
\* message has one of the two phrases, while attempts are left; it sleeps the
\* fixed delay once between two attempts and not after the last; it makes at
\* most `retries` attempts; a successful attempt returns with no error; the
\* error that surfaces is the error of the last attempt made, and a transient
\* one surfaces only when all `retries` attempts are used.
C4_BoundedRetry ==
    mode = "exec" =>
        /\ attempt \in 1..retries
        /\ \A k \in 1..(Len(errs) - 1) : SaysTransient(errs[k])
        /\ pc = "running" =>
            /\ Len(errs) = attempt - 1
            /\ \A k \in 1..Len(errs) : SaysTransient(errs[k])
            /\ waited = (attempt - 1) * RETRY_DELAY_SECONDS
        /\ pc = "returned" =>
            /\ raised = NoErr
            /\ Len(errs) = attempt - 1
            /\ \A k \in 1..Len(errs) : SaysTransient(errs[k])
            /\ waited = (attempt - 1) * RETRY_DELAY_SECONDS
        /\ pc = "raised" =>
            /\ Len(errs) = attempt
            /\ raised = errs[attempt]
            /\ waited = (attempt - 1) * RETRY_DELAY_SECONDS
            /\ SaysTransient(raised) => attempt = retries

C4_Witness ==
    /\ mode = "exec" /\ pc = "raised" /\ retries = 3 /\ attempt = 3
    /\ SaysAuthMetadata(errs[1]) /\ SaysNetworkRequest(errs[2])
    /\ SaysTransient(raised) /\ raised # errs[2]

C4_WitnessReturned ==
    /\ mode = "exec" /\ pc = "returned" /\ retries = 3 /\ attempt = 2

\* C5 as claimed: an error with the network phrase surfaces only after
\* `retries` attempts with the delay between them, and an error with any
\* other message is never followed by another attempt.
C5_AsClaimed ==
    mode = "exec" =>
        /\ \A k \in 1..Len(errs) :
            ~SaysNetworkRequest(errs[k]) => (k = Len(errs) /\ pc = "raised")
        /\ (pc = "raised" /\ SaysNetworkRequest(raised)) =>
            (attempt = retries /\ waited = (retries - 1) * RETRY_DELAY_SECONDS)

\* C5 as amended: an error with the network phrase surfaces only after
\* `retries` attempts with the delay between them, and an error whose message
\* has neither the network phrase nor "auth/metadata" is never followed by
\* another attempt: as the first error it surfaces after one attempt and no
\* sleep.
C5_Amended ==
    mode = "exec" =>
        /\ \A k \in 1..Len(errs) :
            ~SaysTransient(errs[k]) =>
                /\ k = Len(errs) /\ pc = "raised" /\ raised = errs[k]
                /\ k = 1 => (attempt = 1 /\ waited = 0)
        /\ \A k \in 1..Len(errs) :
            SaysNetworkRequest(errs[k]) =>
                \/ attempt > k
                \/ pc = "raised" /\ k = retries
        /\ (pc = "raised" /\ SaysNetworkRequest(raised)) =>
            (attempt = retries /\ waited = (retries - 1) * RETRY_DELAY_SECONDS)

C5_Witness ==
    /\ mode = "exec" /\ pc = "raised" /\ retries = 3 /\ attempt = 3
    /\ raised = ServiceError(<<"FAILED", "TO", "PROCESS", "NETWORK", "REQUEST">>)
    /\ waited = 2 * RETRY_DELAY_SECONDS

C5_WitnessImmediate ==
    /\ mode = "exec" /\ pc = "raised" /\ retries = 3 /\ attempt = 1
    /\ raised = ServiceError(<<"Network", "request", "failed", "to", "process">>)

----------------------------------------------------------------------------
(* Format and mapping resolution.  File names, URIs and formats are          *)
(* sequences of characters.                                                  *)

\* str.lower() on one character.
LowerCh(c) ==
    CASE c = "C" -> "c" [] c = "S" -> "s" [] c = "V" -> "v" [] c = "J" -> "j"
      [] c = "O" -> "o" [] c = "N" -> "n" [] c = "L" -> "l" [] c = "E" -> "e"
      [] OTHER -> c

LowerStr(s) == [k \in 1..Len(s) |-> LowerCh(s[k])]

\* An optional command line value: None, or the string given.
None == [given |-> FALSE, value |-> <<>>]

Some(v) == [given |-> TRUE, value |-> v]

\* Python's truth value of an optional string: None and "" are false.
Truthy(x) == x.given /\ x.value # <<>>

\* --mapping is kept as one token.
NoMapping == [given |-> FALSE, value |-> ""]

TruthyMapping(x) == x.given /\ x.value # ""

\* 1-based index of the last c in s, 0 when there is none (str.rfind).
RFind(s, c) ==
    IF \E k \in 1..Len(s) : s[k] = c
    THEN CHOOSE k \in 1..Len(s) : s[k] = c /\ \A j \in (k + 1)..Len(s) : s[j] # c
    ELSE 0

\* PurePath.name: what follows the last "/".
PathName(p) == SubSeq(p, RFind(p, "/") + 1, Len(p))

\* PurePath.suffix: from the last dot of the name, unless that dot opens or
\* closes the name.
PathSuffix(p) ==
    LET name == PathName(p)
        k == RFind(name, ".")
    IN IF 1 < k /\ k < Len(name) THEN SubSeq(name, k, Len(name)) ELSE <<>>

\* str.endswith
EndsWith(s, t) ==
    Len(s) >= Len(t) /\ SubSeq(s, Len(s) - Len(t) + 1, Len(s)) = t

\* uri.split("?")[0]
BeforeQuery(uri) ==
    IF \E k \in 1..Len(uri) : uri[k] = "?"
    THEN SubSeq(uri, 1, (CHOOSE k \in 1..Len(uri) :
                            uri[k] = "?" /\ \A j \in 1..(k - 1) : uri[j] # "?") - 1)
    ELSE uri

DotCsv == <<".", "c", "s", "v">>

DotJson == <<".", "j", "s", "o", "n">>

DotJsonl == <<".", "j", "s", "o", "n", "l">>

Fatal == [status |-> "exit 1", format |-> "", mapping |-> ""]

\* lines 482 and 485, 519 and 522
DefaultMapping(fmt_lower) ==
    IF fmt_lower = <<"c", "s", "v">> THEN "FileTransferEvents_CsvMapping"
    ELSE "FileTransferEvents_JsonMapping"

\* lines 480-490 and 517-527: the second half of both resolvers.
FormatAndMapping(fmt_lower, mapping) ==
    IF fmt_lower = <<"c", "s", "v">>
    THEN [status |-> "ok", format |-> "CSV",
          mapping |-> IF TruthyMapping(mapping) THEN mapping.value ELSE DefaultMapping(fmt_lower)]
    ELSE IF fmt_lower = <<"j", "s", "o", "n">>
    THEN [status |-> "ok", format |-> "JSON",
          mapping |-> IF TruthyMapping(mapping) THEN mapping.value ELSE DefaultMapping(fmt_lower)]
    ELSE Fatal

\* _resolve_format_and_mapping(file_path, args)
ResolveFormatAndMapping(file_path, fmt, mapping) ==
    IF Truthy(fmt)
    THEN FormatAndMapping(LowerStr(fmt.value), mapping)
    ELSE LET ext == LowerStr(PathSuffix(file_path)) IN
         IF ext = DotCsv THEN FormatAndMapping(<<"c", "s", "v">>, mapping)
         ELSE IF ext \in {DotJson, DotJsonl}
         THEN FormatAndMapping(<<"j", "s", "o", "n">>, mapping)
         ELSE Fatal

\* _resolve_format_and_mapping_from_uri(uri, args)
ResolveFormatAndMappingFromUri(uri, fmt, mapping) ==
    IF Truthy(fmt)
    THEN FormatAndMapping(LowerStr(fmt.value), mapping)
    ELSE LET path_part == BeforeQuery(uri) IN
         IF EndsWith(path_part, DotCsv) THEN FormatAndMapping(<<"c", "s", "v">>, mapping)
         ELSE IF EndsWith(path_part, DotJson) \/ EndsWith(path_part, DotJsonl)
         THEN FormatAndMapping(<<"j", "s", "o", "n">>, mapping)
         ELSE Fatal

\* File names the resolvers are run on.
FileNames ==
    { <<"e", "v", ".", "c", "s", "v">>,
      <<"e", "v", ".", "j", "s", "o", "n">>,
      <<"e", "v", ".", "j", "s", "o", "n", "l">>,
      <<"e", "v", ".", "t", "x", "t">>,
      <<"e", "v">>,
      <<"E", "V", ".", "C", "S", "V">>,
      <<"e", "v", ".", "J", "s", "o", "n">>,
      <<".", "c", "s", "v">>,
      <<"e", "v", ".", "c", "s", "v", ".", "g", "z">>,
      <<"a", ".", "b", ".", "j", "s", "o", "n">>,
      <<"e", "v", "c", "s", "v">>,
      <<"e", "v", ".", "J", "S", "O", "N", "L">> }

\* Query strings a blob URI may carry.
QueryStrings ==
    { <<>>, <<"?", "s", "v", "=", "1">>, <<"?", "f", "=", ".", "c", "s", "v">> }

UriPrefix == <<"h", ":", "/", "/", "x", "/">>

\* --format: argparse admits "csv" and "json" (choices) or no flag.
FormatArgs == { None, Some(<<"c", "s", "v">>), Some(<<"j", "s", "o", "n">>) }

\* --mapping: any string or no flag.
MappingArgs == { NoMapping, [given |-> TRUE, value |-> ""],
                 [given |-> TRUE, value |-> "MyMapping"] }

\* The ingestion mappings that SCHEMA_COMMANDS creates, by format.
MappingCreatedFor(format) ==
    LET kind == IF format = "CSV" THEN "csv" ELSE "json"
        step == CHOOSE k \in 1..NumSteps :
                    /\ SCHEMA_COMMANDS[k].verb = ".create-or-alter ingestion mapping"
                    /\ SCHEMA_COMMANDS[k].mappingKind = kind
    IN SCHEMA_COMMANDS[step].object

\* ingest-local resolves the format of its --file.
ResolveLocal ==
    /\ mode = "resolve" /\ resolved.local = Pending
    /\ resolved' = [resolved EXCEPT !.local =
                        ResolveFormatAndMapping(input.name, input.format, input.mapping)]
    /\ UNCHANGED <<mode, input, cliVars, setupVars, verifyVars>>

\* ingest-blob resolves the format of its --blob-uri.
ResolveBlob ==
    /\ mode = "resolve" /\ resolved.blob = Pending
    /\ resolved' = [resolved EXCEPT !.blob =
                        ResolveFormatAndMappingFromUri(UriPrefix \o input.name \o input.query,
                                                       input.format, input.mapping)]
    /\ UNCHANGED <<mode, input, cliVars, setupVars, verifyVars>>

InitResolve ==
    /\ mode = "resolve"
    /\ input \in [name : FileNames, query : QueryStrings,
                  format : FormatArgs, mapping : MappingArgs]
    /\ resolved = [local |-> Pending, blob |-> Pending]
    /\ SetupIdle
    /\ CliIdle
    /\ VerifyIdle

NextResolve ==
    \/ ResolveLocal
    \/ ResolveBlob

SpecResolve == InitResolve /\ [][NextResolve]_vars

----------------------------------------------------------------------------
(* The command line: main, build_parser, the four handlers up to their       *)
(* remote call, and _build_kcsb.  `cli` is one process: its arguments        *)
(* (argv), the environment (env), whether --file names a file on disk, its   *)
(* position (pc), the objects it has constructed (made), the remote calls    *)
(* and ingestion submissions it has made (network), why it stopped (error)   *)
(* and its exit status (exit).                                               *)

Credentials == {"client-id", "client-secret", "tenant-id"}

AuthChoices == {"az-cli", "interactive", "managed-identity", "service-principal"}

\* Options every sub-command takes (the shared parent parser).
SharedArgs ==
    { [shared |-> sh, auth |-> a, creds |-> c] :
        sh \in BOOLEAN, a \in {"az-cli", "interactive", "managed-identity", "bogus"},
        c \in {{}} }
    \cup { [shared |-> sh, auth |-> "service-principal", creds |-> c] :
        sh \in BOOLEAN, c \in SUBSET Credentials }

\* Values of --file and of the path of --blob-uri.
SourceNames == { <<"e", "v", ".", "c", "s", "v">>, <<"e", "v", ".", "t", "x", "t">> }

\* Values of --format on the command line; "xml" is no choice of the parser.
FormatFlags == { None, Some(<<"c", "s", "v">>), Some(<<"j", "s", "o", "n">>),
                 Some(<<"x", "m", "l">>) }

\* Values of --ingest-uri: no flag, an empty string, a URI.
IngestUris == { None, Some(<<>>), Some(<<"h", ":", "/", "/", "i">>) }

\* The command lines of the model.  An option a sub-command does not take is
\* left out: argparse rejects it like any other usage error.
CommandLines ==
    { [command |-> "none", shared |-> FALSE, auth |-> "az-cli", creds |-> {},
       ingest_uri |-> None, file |-> None, blob_uri |-> None, format |-> None],
      [command |-> "bogus", shared |-> FALSE, auth |-> "az-cli", creds |-> {},
       ingest_uri |-> None, file |-> None, blob_uri |-> None, format |-> None] }
    \cup { [command |-> c, shared |-> sa.shared, auth |-> sa.auth, creds |-> sa.creds,
            ingest_uri |-> None, file |-> None, blob_uri |-> None, format |-> None] :
             c \in {"setup", "verify"}, sa \in SharedArgs }
    \cup { [command |-> "ingest-local", shared |-> sa.shared, auth |-> sa.auth,
            creds |-> sa.creds, ingest_uri |-> u, file |-> f, blob_uri |-> None,
            format |-> fm] :
             sa \in SharedArgs, u \in IngestUris,
             f \in {None} \cup {Some(n) : n \in SourceNames}, fm \in FormatFlags }
    \cup { [command |-> "ingest-blob", shared |-> sa.shared, auth |-> sa.auth,
            creds |-> sa.creds, ingest_uri |-> u, file |-> None, blob_uri |-> b,
            format |-> fm] :
             sa \in SharedArgs, u \in IngestUris,
             b \in {None, Some(<<>>)} \cup {Some(UriPrefix \o n) : n \in SourceNames},
             fm \in FormatFlags }

\* The required options of a sub-command that the command line lacks
\* (required=True in build_parser).
MissingRequired(argv) ==
    (IF argv.command \in {"setup", "verify", "ingest-local", "ingest-blob"} /\ ~argv.shared
     THEN {"--cluster", "--database"} ELSE {})
    \cup (IF argv.command \in {"ingest-local", "ingest-blob"} /\ ~argv.ingest_uri.given
          THEN {"--ingest-uri"} ELSE {})
    \cup (IF argv.command = "ingest-local" /\ ~argv.file.given THEN {"--file"} ELSE {})
    \cup (IF argv.command = "ingest-blob" /\ ~argv.blob_uri.given THEN {"--blob-uri"} ELSE {})

\* A value that is none of the option's choices.
InvalidChoice(argv) ==
    \/ argv.command \notin {"none", "setup", "verify", "ingest-local", "ingest-blob"}
    \/ argv.auth \notin AuthChoices
    \/ argv.format \notin {None, Some(<<"c", "s", "v">>), Some(<<"j", "s", "o", "n">>)}

\* ArgumentParser.error ends the process with status 2.
ArgparseExit == 2

\* The process ends with status `code`.
CliExit(code, why) ==
    cli' = [cli EXCEPT !.pc = "exited", !.exit = code, !.error = why]

\* main, line 678: parser.parse_args().
ParseArgs ==
    /\ mode = "cli" /\ cli.pc = "parse_args"
    /\ IF InvalidChoice(cli.argv) \/ MissingRequired(cli.argv) # {}
       THEN CliExit(ArgparseExit, "usage")
       ELSE cli' = [cli EXCEPT !.pc = "dispatch"]
    /\ UNCHANGED <<mode, setupVars, resolveVars, verifyVars>>

\* main, lines 680-697: no sub-command prints the help and exits 1; else the
\* handler is called.
Dispatch ==
    /\ mode = "cli" /\ cli.pc = "dispatch"
    /\ IF cli.argv.command = "none"
       THEN CliExit(1, "no command")
       ELSE cli' = [cli EXCEPT !.pc =
                        IF cli.argv.command \in {"ingest-local", "ingest-blob"}
                        THEN "check_ingest_uri" ELSE "build_kcsb"]
    /\ UNCHANGED <<mode, setupVars, resolveVars, verifyVars>>

\* cmd_ingest_local and cmd_ingest_blob: if not ingest_uri.
CheckIngestUri ==
    /\ mode = "cli" /\ cli.pc = "check_ingest_uri"
    /\ IF ~Truthy(cli.argv.ingest_uri)
       THEN CliExit(1, "missing ingest uri")
       ELSE cli' = [cli EXCEPT !.pc = "check_source"]
    /\ UNCHANGED <<mode, setupVars, resolveVars, verifyVars>>

\* cmd_ingest_local: the file must exist; cmd_ingest_blob: if not blob_uri.
CheckSource ==
    /\ mode = "cli" /\ cli.pc = "check_source"
    /\ IF cli.argv.command = "ingest-local"
       THEN IF ~cli.fileExists
            THEN CliExit(1, "file not found")
            ELSE cli' = [cli EXCEPT !.pc = "resolve_format"]
       ELSE IF ~Truthy(cli.argv.blob_uri)
            THEN CliExit(1, "missing blob uri")
            ELSE cli' = [cli EXCEPT !.pc = "resolve_format"]
    /\ UNCHANGED <<mode, setupVars, resolveVars, verifyVars>>

\* The handlers resolve format and mapping before they build a connection.
ResolveFormat ==
    /\ mode = "cli" /\ cli.pc = "resolve_format"
    /\ LET r == IF cli.argv.command = "ingest-local"
                THEN ResolveFormatAndMapping(cli.argv.file.value, cli.argv.format, NoMapping)
                ELSE ResolveFormatAndMappingFromUri(cli.argv.blob_uri.value,
                                                    cli.argv.format, NoMapping)
       IN IF r = Fatal
          THEN CliExit(1, "unresolvable format")
          ELSE cli' = [cli EXCEPT !.pc = "build_kcsb"]
    /\ UNCHANGED <<mode, setupVars, resolveVars, verifyVars>>

\* _build_kcsb, lines 238-241: each credential from its flag or its
\* environment variable.
CredentialsPresent(argv, env) == Credentials \subseteq (argv.creds \cup env)

\* _build_kcsb
BuildKcsb ==
    /\ mode = "cli" /\ cli.pc = "build_kcsb"
    /\ IF cli.argv.auth = "az-cli"
       THEN cli' = [cli EXCEPT !.pc = "make_client",
                               !.made = @ \cup {"DefaultAzureCredential",
                                                "KustoConnectionStringBuilder"}]
       ELSE IF cli.argv.auth \in {"interactive", "managed-identity"}
       THEN cli' = [cli EXCEPT !.pc = "make_client",
                               !.made = @ \cup {"KustoConnectionStringBuilder"}]
       ELSE IF cli.argv.auth = "service-principal"
       THEN IF ~CredentialsPresent(cli.argv, cli.env)
            THEN CliExit(1, "missing credentials")
            ELSE cli' = [cli EXCEPT !.pc = "make_client",
                                    !.made = @ \cup {"KustoConnectionStringBuilder"}]
       ELSE CliExit(1, "unknown auth method")
    /\ UNCHANGED <<mode, setupVars, resolveVars, verifyVars>>

\* KustoClient(kcsb) or QueuedIngestClient(kcsb)
MakeClient ==
    /\ mode = "cli" /\ cli.pc = "make_client"
    /\ cli' = [cli EXCEPT !.pc = "remote",
                          !.made = @ \cup {IF cli.argv.command \in {"setup", "verify"}
                                           THEN "KustoClient" ELSE "QueuedIngestClient"}]
    /\ UNCHANGED <<mode, setupVars, resolveVars, verifyVars>>

\* The handler's remote work (the setup loop, the ingestion submission or the
\* verify query) returns or raises; main turns a raised error into exit 1 and
\* a return into exit 0.
RemoteWork ==
    /\ mode = "cli" /\ cli.pc = "remote"
    /\ \E outcome \in {"returns", "KustoServiceError", "Exception"} :
        cli' = [cli EXCEPT !.pc = "exited",
                           !.network = @ + 1,
                           !.exit = IF outcome = "returns" THEN 0 ELSE 1,
                           !.error = IF outcome = "returns" THEN "none" ELSE outcome]
    /\ UNCHANGED <<mode, setupVars, resolveVars, verifyVars>>

InitCli ==
    /\ mode = "cli"
    /\ \E a \in CommandLines, e \in SUBSET Credentials, x \in BOOLEAN :
        /\ (a.auth # "service-principal") => e = {}
        /\ (a.command # "ingest-local" \/ ~a.file.given) => x = FALSE
        /\ cli = [pc |-> "parse_args", argv |-> a, env |-> e, fileExists |-> x,
                  made |-> {}, network |-> 0, error |-> "none", exit |-> -1]
    /\ SetupIdle
    /\ ResolveIdle
    /\ VerifyIdle

NextCli ==
    \/ ParseArgs
    \/ Dispatch
    \/ CheckIngestUri
    \/ CheckSource
    \/ ResolveFormat
    \/ BuildKcsb
    \/ MakeClient
    \/ RemoteWork

SpecCli == InitCli /\ [][NextCli]_vars

----------------------------------------------------------------------------
(* cmd_verify.  `verify` is one call: the rows the service answers the query *)
(* with (response), the rows collected (rows), its position (pc), the        *)
(* number of rows it announced (found), the null-timestamp count and the     *)
(* line printed for it (null_timestamps, verdict) and the status dict        *)
(* printed last (status_counts).                                             *)

MaxRows == 5

\* A cell of a result row: null (Python's None) or a value, held as its text.
DbNull == [null |-> TRUE, text |-> ""]

DbValue(t) == [null |-> FALSE, text |-> t]

\* val is None
IsNone(v) == v.null

\* str(val)
Str(v) == IF v.null THEN "None" ELSE v.text

\* The cells of the two columns the checks read.  VERIFY_QUERY projects both,
\* so every row has them.
Timestamps == { DbNull, DbValue("2024-05-01 00:00:00") }

Statuses == { DbNull, DbValue("OK"), DbValue("None") }

ResultRows == [Timestamp : Timestamps, Status : Statuses]

\* What the query can return: `take 20` in the source, MaxRows here.
Responses == UNION { [1..n -> ResultRows] : n \in 0..MaxRows }

NullTimestamps_ofStatus(rows) ==
    Cardinality({ k \in 1..Len(rows) : IsNone(rows[k].Status) })

\* line 438: sum(1 for row in rows if row["Timestamp"] is None)
RECURSIVE NullTimestamps(_)
NullTimestamps(rows) ==
    IF rows = <<>> THEN 0
    ELSE (IF IsNone(Head(rows).Timestamp) THEN 1 ELSE 0) + NullTimestamps(Tail(rows))

\* dict.get(key, default)
DictGet(d, key, default) == IF key \in DOMAIN d THEN d[key] ELSE default

\* d[key] = val
DictSet(d, key, val) ==
    [x \in DOMAIN d \cup {key} |-> IF x = key THEN val ELSE d[x]]

\* lines 446-448: the loop over the rows, from the dict d.
RECURSIVE StatusCounts(_, _)
StatusCounts(rows, d) ==
    IF rows = <<>> THEN d
    ELSE LET status == Str(Head(rows).Status)
         IN StatusCounts(Tail(rows), DictSet(d, status, DictGet(d, status, 0) + 1))

\* lines 439-442: the line printed for the null-timestamp count.
TimestampVerdict(null_timestamps) ==
    IF null_timestamps > 0 THEN "WARNING" ELSE "PASSED"

\* lines 406-412: client.execute returns and the rows are collected.
VerifyExecute ==
    /\ mode = "verify" /\ verify.pc = "execute"
    /\ verify' = [verify EXCEPT !.pc = "check_rows", !.rows = verify.response]
    /\ UNCHANGED <<mode, setupVars, resolveVars, cliVars>>

\* line 406: client.execute raises; the error leaves cmd_verify.
VerifyExecuteRaises ==
    /\ mode = "verify" /\ verify.pc = "execute"
    /\ verify' = [verify EXCEPT !.pc = "raised"]
    /\ UNCHANGED <<mode, setupVars, resolveVars, cliVars>>

\* lines 414-417: no rows: two lines of advice, and return.
VerifyNoRows ==
    /\ mode = "verify" /\ verify.pc = "check_rows"
    /\ verify.rows = <<>>
    /\ verify' = [verify EXCEPT !.pc = "returned", !.verdict = "no rows"]
    /\ UNCHANGED <<mode, setupVars, resolveVars, cliVars>>

\* lines 419-435: the number of rows found and the table of rows.
VerifyShowRows ==
    /\ mode = "verify" /\ verify.pc = "check_rows"
    /\ verify.rows # <<>>
    /\ verify' = [verify EXCEPT !.pc = "timestamps", !.found = Len(verify.rows)]
    /\ UNCHANGED <<mode, setupVars, resolveVars, cliVars>>

\* lines 438-442: the null-timestamp count, and WARNING or PASSED.
VerifyTimestamps ==
    /\ mode = "verify" /\ verify.pc = "timestamps"
    /\ LET n == NullTimestamps(verify.rows)
       IN verify' = [verify EXCEPT !.pc = "statuses", !.null_timestamps = n,
                                   !.verdict = TimestampVerdict(n)]
    /\ UNCHANGED <<mode, setupVars, resolveVars, cliVars>>

\* lines 445-450: the status distribution; cmd_verify returns.
VerifyStatuses ==
    /\ mode = "verify" /\ verify.pc = "statuses"
    /\ verify' = [verify EXCEPT !.pc = "returned",
                                !.status_counts = StatusCounts(verify.rows, EmptyDict)]
    /\ UNCHANGED <<mode, setupVars, resolveVars, cliVars>>

InitVerify ==
    /\ mode = "verify"
    /\ \E r \in Responses :
        verify = [pc |-> "execute", response |-> r, rows |-> <<>>, found |-> -1,
                  null_timestamps |-> -1, verdict |-> "none", status_counts |-> EmptyDict]
    /\ SetupIdle
    /\ ResolveIdle
    /\ CliIdle

NextVerify ==
    \/ VerifyExecute
    \/ VerifyExecuteRaises
    \/ VerifyNoRows
    \/ VerifyShowRows
    \/ VerifyTimestamps
    \/ VerifyStatuses

SpecVerify == InitVerify /\ [][NextVerify]_vars

----------------------------------------------------------------------------
(* Properties of cmd_setup *)

Passed(k) == report[k] \in {"OK", "SKIPPED"}

Stopped == pc \in {"failed", "aborted"}

\* The messages of the model that hold the words "already exists" in some
\* spelling, listed by hand.
SaysAlreadyExists(e) ==
    e.msg \in { <<"Entity", "Already", "Exists">>,
                <<"table", "already", "exists">>,
                <<"Failed", "to", "process", "network", "request", "entity", "ALREADY", "EXISTS">> }

\* Errors the service raises whatever its database holds: transport failures
\* and refusals.
RaisedForOtherReasons(e) == e.msg \in TransientMsgs \cup FatalMsgs

\* The step of a transition ends in that transition.
StepEndsNow == pc = "running" /\ (report' # report \/ pc' = "aborted")

\* C1: the schema steps reach the service in declaration order: the steps
\* attempted so far are 1, 2, ..., n without a gap or a repeat, every step
\* before the one in progress has ended, and ended as OK or SKIPPED.
C1_DeclarationOrder ==
    /\ sent = [k \in 1..Len(sent) |-> k]
    /\ Len(sent) <= NumSteps
    /\ Len(report) \in {Len(sent) - 1, Len(sent)}
    /\ \A k \in 1..(Len(sent) - 1) : Passed(k)

C1_Witness ==
    /\ prevEnd = "failed" /\ pc = "complete"
    /\ Len(sent) = NumSteps
    /\ \E k \in 1..Len(report) : report[k] = "SKIPPED"

\* C2: when the executor raises on step k an error whose message has no
\* "already exists", steps 1..k-1 are all OK or SKIPPED, setup stops with that
\* error and no step after k has been attempted; from there the only thing
\* left is a new invocation.  When the message has "already exists", step k is
\* printed SKIPPED and the loop goes on with step k+1 (or ends after the last).
C2_FailFastOrSkip ==
    [][ /\ (StepEndsNow /\ raised' # NoErr /\ ~SaysAlreadyExists(raised'))
            => /\ pc' \in {"failed", "aborted"}
               /\ \A k \in 1..(i - 1) : report'[k] \in {"OK", "SKIPPED"}
               /\ sent' = [k \in 1..i |-> k]
               /\ i' = i
        /\ (StepEndsNow /\ raised' # NoErr /\ SaysAlreadyExists(raised'))
            => /\ report' = Append(report, "SKIPPED")
               /\ IF i < NumSteps THEN pc' = "running" /\ i' = i + 1
                                  ELSE pc' = "complete"
        /\ Stopped => (pc' = "running" /\ sent' = <<>> /\ prevEnd' = pc /\ db' = db)
      ]_vars

C2_Witness ==
    /\ pc = "failed" /\ i = 7
    /\ report[3] = "SKIPPED"
    /\ raised = ServiceError(<<"Forbidden">>)

\* C3: a setup run that follows a completed one leaves the database as it
\* was, fails only on an error the service raises for reasons other than what
\* the database holds, and when it completes every step is OK or SKIPPED.
C3_SecondRunIdempotent ==
    prevEnd = "complete" =>
        /\ db = AllObjects
        /\ pc = "failed" => RaisedForOtherReasons(raised)
        /\ \A k \in 1..Len(report) : pc # "failed" => Passed(k)
        /\ pc = "complete" => Len(report) = NumSteps

C3_Witness ==
    /\ prevEnd = "complete" /\ pc = "complete"
    /\ \E k \in 1..Len(report) : report[k] = "SKIPPED"
    /\ \E k \in 1..Len(report) : report[k] = "OK"

\* C6: a setup run that follows a failed or aborted one fails only on an
\* error the service raises for reasons other than what the database holds;
\* when it completes, every step is OK or SKIPPED and the database holds every
\* schema object, as after an uninterrupted run.
C6_Resumable ==
    /\ prevEnd \in {"failed", "aborted"} =>
        /\ pc = "failed" => RaisedForOtherReasons(raised)
        /\ pc = "complete" =>
            /\ Len(report) = NumSteps
            /\ \A k \in 1..NumSteps : Passed(k)
            /\ db = AllObjects
    /\ (prevEnd = "none" /\ pc = "complete") => db = AllObjects

C6_Witness ==
    /\ prevEnd = "aborted" /\ pc = "complete"
    /\ report[1] = "SKIPPED" /\ report[NumSteps] = "OK"

\* C7: when setup has stopped at step k, the object of every step before k is
\* in the database, the steps printed SKIPPED included.
C7_EarlierStepsApplied ==
    Stopped => \A k \in 1..(i - 1) : SCHEMA_COMMANDS[k].object \in db

C7_Witness ==
    /\ pc = "failed" /\ i = NumSteps
    /\ report[1] = "SKIPPED" /\ report[2] = "OK"
    /\ SCHEMA_COMMANDS[NumSteps].object \notin db

\* The step that creates or sets object x.
DeclaredAt(x) == CHOOSE k \in 1..NumSteps : SCHEMA_COMMANDS[k].object = x

DeclaredBefore(x, y) == x \in AllObjects /\ y \in AllObjects /\ DeclaredAt(x) < DeclaredAt(y)

\* C13: the declared list respects its dependencies: every object a step
\* refers to is created by an earlier step (the update policy after the target
\* table, the staging table and the transform function; both ingestion
\* mappings and the batching policy after the staging table; each retention
\* policy after its table; the materialized view after the target table and
\* its retention policy after the view); so whenever setup is about to send a
\* step, the objects the step requires are in the database, and no step fails
\* for a missing object.
C13_DependenciesDeclaredFirst ==
    /\ \A k \in 1..NumSteps : \A x \in SCHEMA_COMMANDS[k].requires :
           \E j \in 1..(k - 1) : SCHEMA_COMMANDS[j].object = x
    /\ DeclaredBefore("FileTransferEvents", "FileTransferEvents policy update")
    /\ DeclaredBefore("FileTransferEvents_Raw", "FileTransferEvents policy update")
    /\ DeclaredBefore("FileTransferEvents_Transform", "FileTransferEvents policy update")
    /\ DeclaredBefore("FileTransferEvents_Raw", "FileTransferEvents_CsvMapping")
    /\ DeclaredBefore("FileTransferEvents_Raw", "FileTransferEvents_JsonMapping")
    /\ DeclaredBefore("FileTransferEvents_Raw", "FileTransferEvents_Raw policy ingestionbatching")
    /\ DeclaredBefore("FileTransferEvents", "FileTransferEvents policy retention")
    /\ DeclaredBefore("FileTransferEvents_Raw", "FileTransferEvents_Raw policy retention")
    /\ DeclaredBefore("FileTransferEvents_Errors", "FileTransferEvents_Errors policy retention")
    /\ DeclaredBefore("FileTransferEvents", "DailySummary")
    /\ DeclaredBefore("DailySummary", "DailySummary policy retention")
    /\ (mode = "setup" /\ pc = "running") => SCHEMA_COMMANDS[i].requires \subseteq db
    /\ mode = "setup" => \A k \in 1..Len(sent) : SCHEMA_COMMANDS[sent[k]].requires \subseteq db
    /\ mode = "setup" => raised # [kind |-> "KustoServiceError", msg |-> <<"Entity", "not", "found">>]

\* The first run, against the empty database, is about to attach the update
\* policy: both tables and the function are there, the function's step
\* having been printed SKIPPED after a lost reply.
C13_Witness ==
    /\ prevEnd = "none" /\ pc = "running" /\ i = 5 /\ attempt = 1
    /\ report[4] = "SKIPPED"
    /\ SCHEMA_COMMANDS[i].requires
           = {"FileTransferEvents", "FileTransferEvents_Raw", "FileTransferEvents_Transform"}
    /\ SCHEMA_COMMANDS[i].requires \subseteq db
    /\ SCHEMA_COMMANDS[i].object \notin db

\* The invocation has ended: the completion message, or an error on its way
\* out of cmd_setup.
Ended == pc \in {"complete", "failed", "aborted"}

\* The calls the invocation can still make if every step to come, and the
\* rest of the step in progress, takes all of its three calls.
CallsLeft ==
    IF pc = "running" THEN 3 * (NumSteps - Len(report)) - (attempt - 1)
    ELSE 0

\* The sleeps of the step in progress.
Sleeps == attempt - 1

\* What C14 says of every state of one invocation: the call about to be made
\* for a step is at most its third, and one sleep of the fixed delay has gone
\* before each call but the first, so at most two per step; at most N steps
\* are begun; the completion message comes after all N steps are OK or
\* SKIPPED, a stop comes with an error that is no "already exists", and the
\* invocation ends with the completion message exactly when the error that
\* last left the executor, if any, was an "already exists".
WithinBounds ==
    /\ attempt \in 1..3
    /\ Sleeps <= 2
    /\ waited = Sleeps * RETRY_DELAY_SECONDS
    /\ Len(sent) <= NumSteps
    /\ CallsLeft >= 0
    /\ CallsLeft <= 3 * NumSteps
    /\ pc = "running" => \A k \in 1..Len(report) : Passed(k)
    /\ pc = "complete" => (Len(report) = NumSteps /\ \A k \in 1..NumSteps : Passed(k))
    /\ pc = "failed" => (report # <<>> /\ report[Len(report)] = "FAILED")
    /\ Stopped => (raised # NoErr /\ ~SaysAlreadyExists(raised))
    /\ Ended => (pc = "complete" <=> (raised = NoErr \/ SaysAlreadyExists(raised)))

\* Every transition of the invocation is one call to the service, and uses
\* up at least one of the calls left.
EachCallCounts == CallsLeft' <= CallsLeft - 1

\* C14: every setup invocation ends, given that each call to the service
\* returns or raises.  It makes at most 3 calls per step and sleeps at most
\* twice per step; each call uses up one of the 3*N calls it starts with, none
\* is ever owed, so it makes at most 3*N calls in all; it ends with the
\* completion message after all N steps are OK or SKIPPED, or else with an
\* error that propagates, and the completion message is printed exactly when
\* no step raised a fatal error.
C14_TerminatesWithinBounds ==
    /\ []WithinBounds
    /\ [][EachCallCounts]_vars
    /\ <>Ended

\* An invocation against the empty database has ended with the completion
\* message, a step printed SKIPPED on the way.
C14_Witness ==
    /\ pc = "complete" /\ prevEnd = "none"
    /\ \E k \in 1..NumSteps : report[k] = "SKIPPED"
    /\ report[NumSteps] = "OK"
    /\ raised = NoErr

\* The last call an invocation can make: the third call of the last step,
\* after two sleeps.
C14_WitnessLastCall ==
    /\ pc = "running" /\ i = NumSteps /\ attempt = 3
    /\ waited = 2 * RETRY_DELAY_SECONDS
    /\ CallsLeft = 1

\* The third call of the last step has failed: the error propagates.
C14_WitnessStopped ==
    /\ pc = "failed" /\ i = NumSteps /\ Len(report) = NumSteps
    /\ raised \in { [kind |-> "KustoServiceError", msg |-> m] : m \in TransientMsgs }

----------------------------------------------------------------------------
(* Properties of the resolvers *)

BothResolved == resolved.local # Pending /\ resolved.blob # Pending

\* C8: for every file name, --format and --mapping, the resolver of local
\* files on the name and the resolver of blob URIs on a URI ending in that
\* name, with or without a query string, give the same outcome: the same
\* format and mapping, or both the fatal error.
C8_SameResolution ==
    BothResolved => resolved.local = resolved.blob

\* The format the suffix of a name of the model stands for, by hand: the text
\* from the last dot of the name, letter case ignored.
FormatOfSuffix(name) ==
    IF name \in { <<"e", "v", ".", "c", "s", "v">>, <<"E", "V", ".", "C", "S", "V">> }
    THEN "CSV"
    ELSE IF name \in { <<"e", "v", ".", "j", "s", "o", "n">>,
                      <<"e", "v", ".", "j", "s", "o", "n", "l">>,
                      <<"e", "v", ".", "J", "s", "o", "n">>,
                      <<"a", ".", "b", ".", "j", "s", "o", "n">>,
                      <<"e", "v", ".", "J", "S", "O", "N", "L">> }
    THEN "JSON"
    ELSE "none"

\* The reference resolution of C9.
Reference(in) ==
    LET format == IF in.format = Some(<<"c", "s", "v">>) THEN "CSV"
                  ELSE IF in.format = Some(<<"j", "s", "o", "n">>) THEN "JSON"
                  ELSE FormatOfSuffix(in.name)
    IN IF format = "none" THEN [status |-> "exit 1", format |-> "", mapping |-> ""]
       ELSE [status |-> "ok", format |-> format,
             mapping |-> IF in.mapping.given /\ in.mapping.value # ""
                         THEN in.mapping.value
                         ELSE IF format = "CSV" THEN "FileTransferEvents_CsvMapping"
                                                ELSE "FileTransferEvents_JsonMapping"]

\* C9: both resolvers answer as the reference does: an explicit --format
\* wins, else .csv is CSV, .json and .jsonl are JSON and any other suffix is
\* fatal; an explicit --mapping wins, else the mapping is the one the setup
\* steps create for the format.
C9_MatchesReference ==
    /\ resolved.local # Pending => resolved.local = Reference(input)
    /\ resolved.blob # Pending => resolved.blob = Reference(input)
    /\ \A f \in {"CSV", "JSON"} :
        Reference([input EXCEPT !.format = None, !.mapping = NoMapping,
                                !.name = IF f = "CSV" THEN <<"e", "v", ".", "c", "s", "v">> ELSE <<"e", "v", ".", "j", "s", "o", "n">>]).mapping
            = MappingCreatedFor(f)

----------------------------------------------------------------------------
(* Properties of the command line *)

\* The process stopped on one of the user input errors of C10.
UserInputError ==
    /\ cli.pc = "exited"
    /\ \/ cli.error \in {"missing ingest uri", "file not found", "missing blob uri",
                         "unresolvable format", "missing credentials"}
       \/ /\ cli.error = "usage"
          /\ MissingRequired(cli.argv) \cap {"--ingest-uri", "--file", "--blob-uri"} # {}

\* C10: a user input error (missing ingestion endpoint, missing source file
\* or blob URI, unresolvable format, service-principal credentials absent
\* from flags and environment) ends the process with exit status 1, with no
\* connection or client constructed and no remote call or submission made.
C10_UserErrorExitsOne ==
    (mode = "cli" /\ UserInputError) =>
        (cli.exit = 1 /\ cli.made = {} /\ cli.network = 0)

\* C11: every process of the command line ends with exit status 0 when its
\* command succeeded and with exit status 1 on any failure (a missing or
\* invalid argument, a user input error, a service error, any other raised
\* error); no other exit status is produced.
C11_ExitZeroOrOne ==
    (mode = "cli" /\ cli.pc = "exited") =>
        /\ cli.exit \in {0, 1}
        /\ cli.exit = 0 <=> cli.error = "none"

----------------------------------------------------------------------------
(* Properties of cmd_verify *)

\* Rows of the call whose cell in column `col` is c, counted by hand.
RowsWith(col, c) ==
    Cardinality({ k \in 1..Len(verify.rows) : verify.rows[k][col] = c })

\* The sum of the values of a dict.
RECURSIVE SumOver(_, _)
SumOver(d, keys) ==
    IF keys = {} THEN 0
    ELSE LET x == CHOOSE x \in keys : TRUE IN d[x] + SumOver(d, keys \ {x})

\* C12: for every non-empty sequence of rows returned to verify, the count
\* reported is the number of returned rows whose Timestamp is null, the
\* warning is printed exactly when that count is above zero, the counts of the
\* status distribution add up to the number of returned rows (a null Status
\* is counted under "None"), and verify goes through to its return without
\* raising.
C12_VerifyChecks ==
    (mode = "verify" /\ verify.rows # <<>>) =>
        /\ verify.pc \in {"check_rows", "timestamps", "statuses", "returned"}
        /\ verify.pc \in {"timestamps", "statuses", "returned"} =>
            verify.found = Len(verify.rows)
        /\ verify.pc \in {"statuses", "returned"} =>
            /\ verify.null_timestamps = RowsWith("Timestamp", [null |-> TRUE, text |-> ""])
            /\ verify.verdict = "WARNING" <=> verify.null_timestamps > 0
            /\ verify.verdict = "PASSED" <=> verify.null_timestamps = 0
        /\ verify.pc = "returned" =>
            /\ SumOver(verify.status_counts, DOMAIN verify.status_counts) = Len(verify.rows)
            /\ DictGet(verify.status_counts, "OK", 0)
                   = RowsWith("Status", [null |-> FALSE, text |-> "OK"])
            /\ DictGet(verify.status_counts, "None", 0)
                   = RowsWith("Status", [null |-> TRUE, text |-> ""])
                     + RowsWith("Status", [null |-> FALSE, text |-> "None"])

\* Five rows, one of them with a null Timestamp: the warning, and a null
\* Status counted together with the Status "None".
C12_Witness ==
    /\ mode = "verify" /\ verify.pc = "returned"
    /\ Len(verify.rows) = 5
    /\ verify.null_timestamps = 1 /\ verify.verdict = "WARNING"
    /\ DOMAIN verify.status_counts = {"OK", "None"}
    /\ verify.status_counts["None"] = 2
    /\ RowsWith("Status", [null |-> TRUE, text |-> ""]) = 1

C12_WitnessPassed ==
    /\ mode = "verify" /\ verify.pc = "returned"
    /\ Len(verify.rows) = 5 /\ verify.verdict = "PASSED"

====
